---- MODULE Spec2Model ----
(***************************************************************************)
(* The two training scripts of the repository,                             *)
(*   training/fix-json/unfat/train.py            ("fix-json")              *)
(*   fast-apply/unfat/octofriend-fast-apply/train.py  ("fast-apply")       *)
(* as Python module bodies executed top to bottom.  A run is one           *)
(* interpreter process executing one of the scripts under one environment. *)
(* Each step of a run is one evaluation step of the module body, in        *)
(* Python's evaluation order: keyword arguments are evaluated left to      *)
(* right, and all of them before the call they belong to is made.  The     *)
(* unfat library is outside the repository: a call into it is in progress  *)
(* until the library returns or raises, and what it returns is the         *)
(* library's choice.  Two independent runs are modelled side by side, so   *)
(* that statements comparing two runs are state predicates.                *)
(***************************************************************************)
EXTENDS Integers, Sequences, FiniteSets, TLC

VARIABLES
    script,          \* run -> which train.py the run executes
    environ,         \* run -> os.environ, restricted to the two keys read
    pc,              \* run -> the step of the module body to execute next
    waiting,         \* run -> TRUE while the module frame awaits a library call
    output_dir,      \* run -> the module global output_dir
    operands,        \* run -> argument values evaluated so far for the config call
    train_config,    \* run -> the module global train_config
    uploaded_files,  \* run -> the module global uploaded_files (fast-apply)
    calls,           \* run -> history of the library calls made, in order
    frames,          \* run -> indices into calls of the library calls in progress
    reads,           \* run -> history of the os.environ keys looked up, in order
    error            \* run -> the uncaught exception that ended the run, if any

vars == <<script, environ, pc, waiting, output_dir, operands, train_config,
          uploaded_files, calls, frames, reads, error>>

-----------------------------------------------------------------------------
(* Bounds and value universes *)

\* upload_files returns one of MaxFileId distinct opaque values
MaxFileId == 2

Runs == {"run1", "run2"}
Scripts == {"fix-json", "fast-apply"}
EnvNames == {"WANDB_API_KEY", "TOGETHER_API_KEY"}
Keys == {"key-a", "key-b"}
Absent == "<absent>"
Unbound == "<unbound>"
NoObj == [ctor |-> "None"]
NoError == [type |-> "none", what |-> ""]

NoOperands ==
    [train |-> <<>>, eval |-> <<>>, dataset |-> NoObj,
     wandb_api_key |-> Unbound, settings |-> NoObj, api_key |-> Unbound]

-----------------------------------------------------------------------------
(* The module bodies as step sequences *)

\* Faulty variant: the api_key lookup left out of fast-apply
FA_Steps_NoApiKey ==
    <<"output_dir", "JsonlConvos_train", "JsonlConvos_eval", "Dataset",
      "WANDB_API_KEY", "LoraSettings",
      "llama_3_1_8b_together", "upload_files", "finetune", "done">>

\* Faulty variant: the last two statements of fast-apply swapped
FA_Steps_Swapped ==
    <<"output_dir", "JsonlConvos_train", "JsonlConvos_eval", "Dataset",
      "WANDB_API_KEY", "LoraSettings", "TOGETHER_API_KEY",
      "llama_3_1_8b_together", "finetune", "upload_files", "done">>

FJ_Steps ==
    <<"output_dir", "JsonlConvos_train", "JsonlConvos_eval", "Dataset",
      "WANDB_API_KEY", "LoraSettings", "llama_3_1_8b_axolotl", "save", "done">>

FA_Steps ==
    <<"output_dir", "JsonlConvos_train", "JsonlConvos_eval", "Dataset",
      "WANDB_API_KEY", "LoraSettings", "TOGETHER_API_KEY",
      "llama_3_1_8b_together", "upload_files", "finetune", "done">>

After(steps, s) == steps[(CHOOSE i \in 1..Len(steps) : steps[i] = s) + 1]

-----------------------------------------------------------------------------
(* Python semantics shared by the steps *)

\* Faulty variant: the call is started without waiting for it
Invoke_NoWait(r, fn, args) ==
    /\ calls' = [calls EXCEPT ![r] =
            Append(@, [site |-> pc[r], fn |-> fn, args |-> args,
                       status |-> "running", ret |-> NoObj])]
    /\ frames' = [frames EXCEPT ![r] = Append(@, Len(calls[r]) + 1)]
    /\ UNCHANGED <<script, environ, pc, waiting, output_dir, operands,
                   train_config, uploaded_files, reads, error>>

\* A library call is made: its record enters the history, its frame is
\* pushed, and the module frame waits for it.
Invoke(r, fn, args) ==
    /\ ~waiting[r]
    /\ calls' = [calls EXCEPT ![r] =
            Append(@, [site |-> pc[r], fn |-> fn, args |-> args,
                       status |-> "running", ret |-> NoObj])]
    /\ frames' = [frames EXCEPT ![r] = Append(@, Len(calls[r]) + 1)]
    /\ waiting' = [waiting EXCEPT ![r] = TRUE]
    /\ UNCHANGED <<script, environ, pc, output_dir, operands, train_config,
                   uploaded_files, reads, error>>

\* What the library may hand back from a call: a constructor yields the
\* object built from its arguments, upload_files yields some opaque value,
\* finetune and save yield None.
LibReturns(c) ==
    IF c.fn = "upload_files"
        THEN {[ctor |-> "uploaded_files", id |-> n] : n \in 1..MaxFileId}
    ELSE IF c.fn \in {"finetune", "save"}
        THEN {NoObj}
    ELSE {[ctor |-> c.fn, args |-> c.args]}

\* Faulty variant: os.environ.get(name, ""), which never raises
Lookup_Get(r, name) ==
    IF environ[r][name] = Absent THEN "" ELSE environ[r][name]

\* os.environ[name]: the value, or KeyError when the variable is not set
Lookup(r, name) == environ[r][name]

\* An uncaught exception in the module body: the traceback is printed and
\* the interpreter exits; every frame is unwound.
Uncaught(r, type, what) ==
    /\ error' = [error EXCEPT ![r] = [type |-> type, what |-> what]]
    /\ pc' = [pc EXCEPT ![r] = "error"]
    /\ frames' = [frames EXCEPT ![r] = <<>>]
    /\ waiting' = [waiting EXCEPT ![r] = FALSE]

-----------------------------------------------------------------------------
Init ==
    /\ script \in [Runs -> Scripts]
    /\ environ \in [Runs -> [EnvNames -> Keys \cup {Absent}]]
    /\ pc = [r \in Runs |-> "output_dir"]
    /\ waiting = [r \in Runs |-> FALSE]
    /\ output_dir = [r \in Runs |-> Unbound]
    /\ operands = [r \in Runs |-> NoOperands]
    /\ train_config = [r \in Runs |-> NoObj]
    /\ uploaded_files = [r \in Runs |-> NoObj]
    /\ calls = [r \in Runs |-> <<>>]
    /\ frames = [r \in Runs |-> <<>>]
    /\ reads = [r \in Runs |-> <<>>]
    /\ error = [r \in Runs |-> NoError]

-----------------------------------------------------------------------------
(* Return from and exception in a library call *)

Top(r) == frames[r][Len(frames[r])]

\* The library returns v from the innermost call in progress of run r.
Returned(r, v) ==
    /\ calls' = [calls EXCEPT ![r][Top(r)].status = "returned",
                              ![r][Top(r)].ret = v]
    /\ frames' = [frames EXCEPT ![r] = SubSeq(@, 1, Len(@) - 1)]
    /\ waiting' = [waiting EXCEPT ![r] = FALSE]

\* Faulty variant: the call wrapped in try/except, the exception swallowed
Raised_Swallowed(r) ==
    /\ calls' = [calls EXCEPT ![r][Top(r)].status = "raised"]
    /\ frames' = [frames EXCEPT ![r] = SubSeq(@, 1, Len(@) - 1)]
    /\ waiting' = [waiting EXCEPT ![r] = FALSE]
    /\ pc' = [pc EXCEPT ![r] =
            After(IF script[r] = "fix-json" THEN FJ_Steps ELSE FA_Steps,
                  calls[r][Top(r)].site)]
    /\ UNCHANGED error

\* The library raises in the innermost call in progress of run r; neither
\* script has a try statement, so the exception is uncaught.
Raised(r) ==
    /\ calls' = [calls EXCEPT ![r][Top(r)].status = "raised"]
    /\ Uncaught(r, "LibraryError", calls[r][Top(r)].fn)

-----------------------------------------------------------------------------
(* training/fix-json/unfat/train.py *)

\* output_dir = "output"
FJ_output_dir(r) ==
    /\ script[r] = "fix-json" /\ pc[r] = "output_dir"
    /\ output_dir' = [output_dir EXCEPT ![r] = "output"]
    /\ pc' = [pc EXCEPT ![r] = After(FJ_Steps, "output_dir")]
    /\ UNCHANGED <<script, environ, waiting, operands, train_config,
                   uploaded_files, calls, frames, reads, error>>

\* JsonlConvos("data/train.jsonl")
FJ_JsonlConvos_train(r) ==
    /\ script[r] = "fix-json" /\ pc[r] = "JsonlConvos_train"
    /\ Invoke(r, "JsonlConvos", [path |-> "data/train.jsonl"])

\* JsonlConvos("data/eval.jsonl")
FJ_JsonlConvos_eval(r) ==
    /\ script[r] = "fix-json" /\ pc[r] = "JsonlConvos_eval"
    /\ Invoke(r, "JsonlConvos", [path |-> "data/eval.jsonl"])

\* Dataset(train=[...], eval=[...])
\* Faulty variant: the train list given as the eval list too
FJ_DatasetArgs_SameFile(r) ==
    [train |-> operands[r].train, eval |-> operands[r].train]

FJ_DatasetArgs(r) == [train |-> operands[r].train, eval |-> operands[r].eval]

FJ_Dataset(r) ==
    /\ script[r] = "fix-json" /\ pc[r] = "Dataset"
    /\ Invoke(r, "Dataset", FJ_DatasetArgs(r))

\* os.environ["WANDB_API_KEY"]
FJ_environ_WANDB_API_KEY(r) ==
    /\ script[r] = "fix-json" /\ pc[r] = "WANDB_API_KEY"
    /\ reads' = [reads EXCEPT ![r] = Append(@, "WANDB_API_KEY")]
    /\ IF Lookup(r, "WANDB_API_KEY") = Absent
         THEN /\ Uncaught(r, "KeyError", "WANDB_API_KEY")
              /\ UNCHANGED operands
         ELSE /\ operands' = [operands EXCEPT
                    ![r].wandb_api_key = Lookup(r, "WANDB_API_KEY")]
              /\ pc' = [pc EXCEPT ![r] = After(FJ_Steps, "WANDB_API_KEY")]
              /\ UNCHANGED <<frames, waiting, error>>
    /\ UNCHANGED <<script, environ, output_dir, train_config, uploaded_files,
                   calls>>

\* LoraSettings(rank=32, ..., wandb_project="json-fix")
FJ_LoraSettingsArgs(r) ==
    [rank |-> 32, alpha |-> 16, dropout |-> "0.01", num_epochs |-> 2,
     evals_per_epoch |-> 10, learning_rate |-> "4e-4",
     wandb_api_key |-> operands[r].wandb_api_key,
     wandb_project |-> "json-fix"]

FJ_LoraSettings(r) ==
    /\ script[r] = "fix-json" /\ pc[r] = "LoraSettings"
    /\ Invoke(r, "LoraSettings", FJ_LoraSettingsArgs(r))

\* llama_3_1_8b_axolotl(dataset=..., settings=..., warmup_steps=10)
FJ_ConfigArgs(r) ==
    [dataset |-> operands[r].dataset, settings |-> operands[r].settings,
     warmup_steps |-> 10]

FJ_llama_3_1_8b_axolotl(r) ==
    /\ script[r] = "fix-json" /\ pc[r] = "llama_3_1_8b_axolotl"
    /\ Invoke(r, "llama_3_1_8b_axolotl", FJ_ConfigArgs(r))

\* train_config.save(output_dir)
\* Faulty variant: save given another directory than the declared one
FJ_SaveArgs_Cwd(r) == [self |-> train_config[r], output_dir |-> "."]

FJ_SaveArgs(r) == [self |-> train_config[r], output_dir |-> output_dir[r]]

FJ_save(r) ==
    /\ script[r] = "fix-json" /\ pc[r] = "save"
    /\ Invoke(r, "save", FJ_SaveArgs(r))

\* Where the value a library call returned goes in fix-json
FJ_Bind(r, site, v) ==
    /\ operands' = [operands EXCEPT ![r] =
            CASE site = "JsonlConvos_train" -> [@ EXCEPT !.train = <<v>>]
              [] site = "JsonlConvos_eval" -> [@ EXCEPT !.eval = <<v>>]
              [] site = "Dataset" -> [@ EXCEPT !.dataset = v]
              [] site = "LoraSettings" -> [@ EXCEPT !.settings = v]
              [] OTHER -> @]
    /\ train_config' = [train_config EXCEPT ![r] =
            IF site = "llama_3_1_8b_axolotl" THEN v ELSE @]
    /\ UNCHANGED uploaded_files

\* A library call of fix-json returns and the module body goes on
FJ_Return(r) ==
    /\ script[r] = "fix-json" /\ frames[r] # <<>>
    /\ \E v \in LibReturns(calls[r][Top(r)]) :
          /\ Returned(r, v)
          /\ FJ_Bind(r, calls[r][Top(r)].site, v)
    /\ pc' = [pc EXCEPT ![r] = After(FJ_Steps, calls[r][Top(r)].site)]
    /\ UNCHANGED <<script, environ, output_dir, reads, error>>

\* A library call of fix-json raises
FJ_Raise(r) ==
    /\ script[r] = "fix-json" /\ frames[r] # <<>>
    /\ Raised(r)
    /\ UNCHANGED <<script, environ, output_dir, operands, train_config,
                   uploaded_files, reads>>

-----------------------------------------------------------------------------
(* fast-apply/unfat/octofriend-fast-apply/train.py *)

\* output_dir = "output"
FA_output_dir(r) ==
    /\ script[r] = "fast-apply" /\ pc[r] = "output_dir"
    /\ output_dir' = [output_dir EXCEPT ![r] = "output"]
    /\ pc' = [pc EXCEPT ![r] = After(FA_Steps, "output_dir")]
    /\ UNCHANGED <<script, environ, waiting, operands, train_config,
                   uploaded_files, calls, frames, reads, error>>

\* JsonlConvos("data/train.jsonl")
FA_JsonlConvos_train(r) ==
    /\ script[r] = "fast-apply" /\ pc[r] = "JsonlConvos_train"
    /\ Invoke(r, "JsonlConvos", [path |-> "data/train.jsonl"])

\* JsonlConvos("data/eval.jsonl")
FA_JsonlConvos_eval(r) ==
    /\ script[r] = "fast-apply" /\ pc[r] = "JsonlConvos_eval"
    /\ Invoke(r, "JsonlConvos", [path |-> "data/eval.jsonl"])

\* Dataset(train=[...], eval=[...])
FA_DatasetArgs(r) == [train |-> operands[r].train, eval |-> operands[r].eval]

FA_Dataset(r) ==
    /\ script[r] = "fast-apply" /\ pc[r] = "Dataset"
    /\ Invoke(r, "Dataset", FA_DatasetArgs(r))

\* os.environ[name] at step `name` of fast-apply
FA_environ(r, name) ==
    /\ reads' = [reads EXCEPT ![r] = Append(@, name)]
    /\ IF Lookup(r, name) = Absent
         THEN /\ Uncaught(r, "KeyError", name)
              /\ UNCHANGED operands
         ELSE /\ operands' = [operands EXCEPT ![r] =
                    IF name = "WANDB_API_KEY"
                        THEN [@ EXCEPT !.wandb_api_key = Lookup(r, name)]
                        ELSE [@ EXCEPT !.api_key = Lookup(r, name)]]
              /\ pc' = [pc EXCEPT ![r] = After(FA_Steps, name)]
              /\ UNCHANGED <<frames, waiting, error>>
    /\ UNCHANGED <<script, environ, output_dir, train_config, uploaded_files,
                   calls>>

\* os.environ["WANDB_API_KEY"]
FA_environ_WANDB_API_KEY(r) ==
    /\ script[r] = "fast-apply" /\ pc[r] = "WANDB_API_KEY"
    /\ FA_environ(r, "WANDB_API_KEY")

\* LoraSettings(rank=32, ..., wandb_project="octofriend-fast-apply")
FA_LoraSettingsArgs(r) ==
    [rank |-> 32, alpha |-> 16, dropout |-> "0.01", num_epochs |-> 8,
     learning_rate |-> "4e-4",
     wandb_api_key |-> operands[r].wandb_api_key,
     wandb_project |-> "octofriend-fast-apply"]

FA_LoraSettings(r) ==
    /\ script[r] = "fast-apply" /\ pc[r] = "LoraSettings"
    /\ Invoke(r, "LoraSettings", FA_LoraSettingsArgs(r))

\* os.environ["TOGETHER_API_KEY"]
FA_environ_TOGETHER_API_KEY(r) ==
    /\ script[r] = "fast-apply" /\ pc[r] = "TOGETHER_API_KEY"
    /\ FA_environ(r, "TOGETHER_API_KEY")

\* llama_3_1_8b_together(output_dir=..., dataset=..., settings=..., api_key=...)
\* Faulty variant: the constructor given another directory than the declared one
FA_ConfigArgs_OtherDir(r) ==
    [output_dir |-> "outputs", dataset |-> operands[r].dataset,
     settings |-> operands[r].settings, api_key |-> operands[r].api_key]

\* Faulty variant: the W&B key passed as the provider's api_key
FA_ConfigArgs_WrongKey(r) ==
    [output_dir |-> output_dir[r], dataset |-> operands[r].dataset,
     settings |-> operands[r].settings,
     api_key |-> operands[r].wandb_api_key]

FA_ConfigArgs(r) ==
    [output_dir |-> output_dir[r], dataset |-> operands[r].dataset,
     settings |-> operands[r].settings, api_key |-> operands[r].api_key]

FA_llama_3_1_8b_together(r) ==
    /\ script[r] = "fast-apply" /\ pc[r] = "llama_3_1_8b_together"
    /\ Invoke(r, "llama_3_1_8b_together", FA_ConfigArgs(r))

\* train_config.upload_files()
FA_upload_files(r) ==
    /\ script[r] = "fast-apply" /\ pc[r] = "upload_files"
    /\ Invoke(r, "upload_files", [self |-> train_config[r]])

\* train_config.finetune(uploaded_files)
FA_FinetuneArgs(r) ==
    [self |-> train_config[r], uploaded_files |-> uploaded_files[r]]

FA_finetune(r) ==
    /\ script[r] = "fast-apply" /\ pc[r] = "finetune"
    /\ Invoke(r, "finetune", FA_FinetuneArgs(r))

\* Where the value a library call returned goes in fast-apply
FA_Bind(r, site, v) ==
    /\ operands' = [operands EXCEPT ![r] =
            CASE site = "JsonlConvos_train" -> [@ EXCEPT !.train = <<v>>]
              [] site = "JsonlConvos_eval" -> [@ EXCEPT !.eval = <<v>>]
              [] site = "Dataset" -> [@ EXCEPT !.dataset = v]
              [] site = "LoraSettings" -> [@ EXCEPT !.settings = v]
              [] OTHER -> @]
    /\ train_config' = [train_config EXCEPT ![r] =
            IF site = "llama_3_1_8b_together" THEN v ELSE @]
    /\ uploaded_files' = [uploaded_files EXCEPT ![r] =
            IF site = "upload_files" THEN v ELSE @]

\* A library call of fast-apply returns and the module body goes on
FA_Return(r) ==
    /\ script[r] = "fast-apply" /\ frames[r] # <<>>
    /\ \E v \in LibReturns(calls[r][Top(r)]) :
          /\ Returned(r, v)
          /\ FA_Bind(r, calls[r][Top(r)].site, v)
    /\ pc' = [pc EXCEPT ![r] = After(FA_Steps, calls[r][Top(r)].site)]
    /\ UNCHANGED <<script, environ, output_dir, reads, error>>

\* A library call of fast-apply raises
FA_Raise(r) ==
    /\ script[r] = "fast-apply" /\ frames[r] # <<>>
    /\ Raised(r)
    /\ UNCHANGED <<script, environ, output_dir, operands, train_config,
                   uploaded_files, reads>>

-----------------------------------------------------------------------------
Next ==
    \E r \in Runs :
        \/ FJ_output_dir(r)
        \/ FJ_JsonlConvos_train(r)
        \/ FJ_JsonlConvos_eval(r)
        \/ FJ_Dataset(r)
        \/ FJ_environ_WANDB_API_KEY(r)
        \/ FJ_LoraSettings(r)
        \/ FJ_llama_3_1_8b_axolotl(r)
        \/ FJ_save(r)
        \/ FJ_Return(r)
        \/ FJ_Raise(r)
        \/ FA_output_dir(r)
        \/ FA_JsonlConvos_train(r)
        \/ FA_JsonlConvos_eval(r)
        \/ FA_Dataset(r)
        \/ FA_environ_WANDB_API_KEY(r)
        \/ FA_LoraSettings(r)
        \/ FA_environ_TOGETHER_API_KEY(r)
        \/ FA_llama_3_1_8b_together(r)
        \/ FA_upload_files(r)
        \/ FA_finetune(r)
        \/ FA_Return(r)
        \/ FA_Raise(r)

Spec == Init /\ [][Next]_vars

-----------------------------------------------------------------------------
(* Vocabulary of the properties *)

EntryPoints == {"upload_files", "finetune", "save"}
ConfigCtors == {"llama_3_1_8b_axolotl", "llama_3_1_8b_together"}
Terminal(r) == pc[r] \in {"done", "error"}
CallsOf(r, fns) == {i \in 1..Len(calls[r]) : calls[r][i].fn \in fns}
Fns(r, fns) ==
    LET sel == SelectSeq(calls[r], LAMBDA c : c.fn \in fns)
    IN  [i \in 1..Len(sel) |-> sel[i].fn]
IsPrefix(s, t) == Len(s) <= Len(t) /\ SubSeq(t, 1, Len(s)) = s
IsSet(r, name) == environ[r][name] # Absent

-----------------------------------------------------------------------------
\* C1: in fast-apply the entry points are invoked in the order
\* llama_3_1_8b_together, upload_files, finetune (all three in a run that
\* ends without error); upload_files is invoked on the config the constructor
\* returned; finetune is invoked only after the one upload_files call has
\* returned, with exactly the value that call returned as its argument.
C1_UploadThenFinetune ==
    \A r \in Runs : script[r] = "fast-apply" =>
        /\ IsPrefix(Fns(r, ConfigCtors \cup EntryPoints),
                    <<"llama_3_1_8b_together", "upload_files", "finetune">>)
        /\ pc[r] = "done" =>
              Fns(r, ConfigCtors \cup EntryPoints) =
                  <<"llama_3_1_8b_together", "upload_files", "finetune">>
        /\ \A i \in CallsOf(r, {"upload_files"}) :
              \E j \in 1..(i - 1) :
                  /\ calls[r][j].fn = "llama_3_1_8b_together"
                  /\ calls[r][j].status = "returned"
                  /\ calls[r][i].args.self = calls[r][j].ret
        /\ \A i \in CallsOf(r, {"finetune"}) :
              \E j \in 1..(i - 1) :
                  /\ calls[r][j].fn = "upload_files"
                  /\ calls[r][j].status = "returned"
                  /\ calls[r][i].args.uploaded_files = calls[r][j].ret
                  /\ CallsOf(r, {"upload_files"}) = {j}

C1_Witness ==
    \E r \in Runs :
        /\ script[r] = "fast-apply" /\ pc[r] = "done"
        /\ \E i \in CallsOf(r, {"finetune"}) :
              /\ calls[r][i].status = "returned"
              /\ calls[r][i].args.uploaded_files.id = MaxFileId

\* C2: fix-json only serializes: the only entry point it invokes is save, at
\* most once (exactly once in a run that ends without error), on the config
\* the constructor returned and with the output directory "output";
\* upload_files and finetune are never invoked.
C2_OnlySave ==
    \A r \in Runs : script[r] = "fix-json" =>
        /\ CallsOf(r, {"upload_files", "finetune"}) = {}
        /\ Cardinality(CallsOf(r, {"save"})) <= 1
        /\ pc[r] = "done" => Cardinality(CallsOf(r, {"save"})) = 1
        /\ \A i \in CallsOf(r, {"save"}) :
              /\ calls[r][i].args.output_dir = "output"
              /\ \E j \in 1..(i - 1) :
                    /\ calls[r][j].fn = "llama_3_1_8b_axolotl"
                    /\ calls[r][j].status = "returned"
                    /\ calls[r][i].args.self = calls[r][j].ret

C2_Witness ==
    \E r \in Runs :
        /\ script[r] = "fix-json" /\ pc[r] = "done"
        /\ \E i \in CallsOf(r, {"save"}) : calls[r][i].status = "returned"

\* C3: a library call that raises ends the run in the error state at that
\* step: the raised call is the last call the run ever makes, no step is
\* made twice, and once in the error state the run makes no further step.
\* So finetune is never invoked after upload_files has raised.
C3_AtRaise(r) ==
    /\ \A i \in 1..Len(calls[r]) :
          calls[r][i].status = "raised" =>
              /\ i = Len(calls[r])
              /\ pc[r] = "error"
              /\ error[r] = [type |-> "LibraryError", what |-> calls[r][i].fn]
    /\ error[r].type = "LibraryError" =>
          /\ calls[r] # <<>>
          /\ calls[r][Len(calls[r])].status = "raised"
    /\ error[r] # NoError <=> pc[r] = "error"
    /\ pc[r] = "error" => frames[r] = <<>> /\ ~waiting[r]
    /\ \A i, j \in 1..Len(calls[r]) :
          calls[r][i].site = calls[r][j].site => i = j
    /\ (\E i \in CallsOf(r, {"upload_files"}) : calls[r][i].status = "raised")
          => CallsOf(r, {"finetune"}) = {}

C3_Halted(r) ==
    pc[r] = "error" =>
        /\ pc'[r] = "error"
        /\ error'[r] = error[r]
        /\ calls'[r] = calls[r]
        /\ reads'[r] = reads[r]
        /\ train_config'[r] = train_config[r]
        /\ uploaded_files'[r] = uploaded_files[r]

C3_NoRecovery ==
    /\ [](\A r \in Runs : C3_AtRaise(r))
    /\ [][\A r \in Runs : C3_Halted(r)]_vars

C3_Witness ==
    \E r1, r2 \in Runs :
        /\ script[r1] = "fast-apply" /\ pc[r1] = "error"
        /\ error[r1] = [type |-> "LibraryError", what |-> "upload_files"]
        /\ script[r2] = "fix-json" /\ pc[r2] = "error"
        /\ error[r2] = [type |-> "LibraryError", what |-> "save"]

\* C4: within a run at most one library call is in progress at any time,
\* each entry point is invoked at most once, and when its last entry point
\* (finetune for fast-apply, save for fix-json) has returned the run has
\* terminated with that call as its last; a run that terminated without
\* error has had every one of its library calls return.
C4_LastEntryPoint(r) ==
    IF script[r] = "fast-apply" THEN "finetune" ELSE "save"

C4_Sequential ==
    \A r \in Runs :
        /\ Len(frames[r]) <= 1
        /\ Cardinality({i \in 1..Len(calls[r]) :
                            calls[r][i].status = "running"}) <= 1
        /\ \A i \in 1..Len(calls[r]) :
              calls[r][i].status = "running" =>
                  i = Len(calls[r]) /\ frames[r] = <<i>>
        /\ \A f \in EntryPoints : Cardinality(CallsOf(r, {f})) <= 1
        /\ \A i \in CallsOf(r, {C4_LastEntryPoint(r)}) :
              calls[r][i].status = "returned" =>
                  pc[r] = "done" /\ i = Len(calls[r])
        /\ pc[r] = "done" =>
              /\ calls[r] # <<>>
              /\ calls[r][Len(calls[r])].fn = C4_LastEntryPoint(r)
              /\ \A i \in 1..Len(calls[r]) : calls[r][i].status = "returned"

C4_Witness ==
    \E r1, r2 \in Runs :
        /\ script[r1] = "fast-apply" /\ pc[r1] = "done"
        /\ script[r2] = "fix-json" /\ frames[r2] # <<>>
        /\ calls[r2][Len(calls[r2])].fn = "save"

\* C5: the dataset handed to the library (to Dataset and, inside the Dataset
\* object, to the config constructor) has a non-empty train list and a
\* non-empty eval list of JsonlConvos entries, train holding exactly
\* data/train.jsonl and eval exactly data/eval.jsonl, no path in both.
C5_Paths(list) == {list[i].args.path : i \in 1..Len(list)}

C5_DatasetOk(a) ==
    /\ a.train # <<>> /\ a.eval # <<>>
    /\ \A i \in 1..Len(a.train) : a.train[i].ctor = "JsonlConvos"
    /\ \A i \in 1..Len(a.eval) : a.eval[i].ctor = "JsonlConvos"
    /\ C5_Paths(a.train) \cap C5_Paths(a.eval) = {}
    /\ C5_Paths(a.train) = {"data/train.jsonl"}
    /\ C5_Paths(a.eval) = {"data/eval.jsonl"}

C5_Dataset ==
    \A r \in Runs :
        /\ \A i \in CallsOf(r, {"Dataset"}) : C5_DatasetOk(calls[r][i].args)
        /\ \A i \in CallsOf(r, ConfigCtors) :
              /\ calls[r][i].args.dataset.ctor = "Dataset"
              /\ C5_DatasetOk(calls[r][i].args.dataset.args)

C5_Witness ==
    \E r1, r2 \in Runs :
        /\ script[r1] = "fix-json" /\ CallsOf(r1, ConfigCtors) # {}
        /\ script[r2] = "fast-apply" /\ CallsOf(r2, ConfigCtors) # {}

\* C6: the module global output_dir is "output" from its assignment on, and
\* that value reaches the library: every llama_3_1_8b_together call
\* (fast-apply) and every save call (fix-json) carries output_dir "output",
\* and in fast-apply the constructor call carrying it precedes upload_files
\* and finetune.
C6_OutputDir ==
    \A r \in Runs :
        /\ output_dir[r] = (IF pc[r] = "output_dir" THEN Unbound ELSE "output")
        /\ \A i \in CallsOf(r, {"llama_3_1_8b_together", "save"}) :
              calls[r][i].args.output_dir = "output"
        /\ \A i \in CallsOf(r, {"upload_files", "finetune"}) :
              \E j \in 1..(i - 1) :
                  /\ calls[r][j].fn = "llama_3_1_8b_together"
                  /\ calls[r][j].args.output_dir = "output"
        /\ script[r] = "fast-apply" =>
              CallsOf(r, {"save", "llama_3_1_8b_axolotl"}) = {}
        /\ script[r] = "fix-json" =>
              CallsOf(r, {"llama_3_1_8b_together"}) = {}

C6_Witness ==
    \E r1, r2 \in Runs :
        /\ script[r1] = "fix-json" /\ CallsOf(r1, {"save"}) # {}
        /\ script[r2] = "fast-apply" /\ CallsOf(r2, {"upload_files"}) # {}

\* C7: a run whose environment lacks a variable the script reads fails with
\* KeyError at that lookup: it never builds the config (no LoraSettings call
\* either when it is WANDB_API_KEY) and never invokes upload_files, finetune
\* or save.  fast-apply looks up WANDB_API_KEY before TOGETHER_API_KEY, so
\* with both unset its KeyError is the one for WANDB_API_KEY.
C7_KeyError(name) == [type |-> "KeyError", what |-> name]

C7_MissingVariable ==
    \A r \in Runs :
        /\ error[r].type = "KeyError" =>
              /\ ~IsSet(r, error[r].what)
              /\ reads[r][Len(reads[r])] = error[r].what
              /\ CallsOf(r, ConfigCtors \cup EntryPoints) = {}
              /\ train_config[r] = NoObj
        /\ ~IsSet(r, "WANDB_API_KEY") =>
              /\ CallsOf(r, {"LoraSettings"} \cup ConfigCtors \cup EntryPoints) = {}
              /\ train_config[r] = NoObj
              /\ reads[r] # <<>> => error[r] = C7_KeyError("WANDB_API_KEY")
        /\ (script[r] = "fast-apply" /\ ~IsSet(r, "TOGETHER_API_KEY")) =>
              /\ CallsOf(r, ConfigCtors \cup EntryPoints) = {}
              /\ train_config[r] = NoObj
              /\ Len(reads[r]) = 2 => error[r] = C7_KeyError("TOGETHER_API_KEY")
        /\ script[r] = "fast-apply" =>
              IsPrefix(reads[r], <<"WANDB_API_KEY", "TOGETHER_API_KEY">>)
        /\ (~IsSet(r, "WANDB_API_KEY") /\ ~IsSet(r, "TOGETHER_API_KEY")
               /\ error[r].type = "KeyError") =>
              error[r].what = "WANDB_API_KEY"

C7_Witness ==
    \E r1, r2 \in Runs :
        /\ script[r1] = "fast-apply"
        /\ ~IsSet(r1, "WANDB_API_KEY") /\ ~IsSet(r1, "TOGETHER_API_KEY")
        /\ error[r1] = C7_KeyError("WANDB_API_KEY")
        /\ script[r2] = "fast-apply"
        /\ error[r2] = C7_KeyError("TOGETHER_API_KEY")

\* C8: fix-json never looks up TOGETHER_API_KEY; with WANDB_API_KEY set it
\* never fails with KeyError and, unless a library call raises, has invoked
\* save when it ends, whether or not TOGETHER_API_KEY is set.  fast-apply
\* invokes upload_files only in runs with both variables set.
C8_ProviderKey ==
    \A r \in Runs :
        /\ script[r] = "fix-json" =>
              /\ \A i \in 1..Len(reads[r]) : reads[r][i] = "WANDB_API_KEY"
              /\ IsSet(r, "WANDB_API_KEY") =>
                    /\ error[r].type # "KeyError"
                    /\ (Terminal(r) /\ error[r].type # "LibraryError") =>
                          CallsOf(r, {"save"}) # {}
        /\ script[r] = "fast-apply" =>
              (CallsOf(r, {"upload_files"}) # {} =>
                  IsSet(r, "WANDB_API_KEY") /\ IsSet(r, "TOGETHER_API_KEY"))

C8_Witness ==
    \E r1, r2 \in Runs :
        /\ script[r1] = "fix-json"
        /\ IsSet(r1, "WANDB_API_KEY") /\ ~IsSet(r1, "TOGETHER_API_KEY")
        /\ CallsOf(r1, {"save"}) # {}
        /\ script[r2] = "fast-apply" /\ CallsOf(r2, {"upload_files"}) # {}

\* C9 as stated, for runs that ran to completion: two runs of the same
\* script under the same values of the environment variables it reads made
\* the same library calls with the same arguments.
C9_SameInputs(r1, r2) ==
    /\ script[r1] = script[r2]
    /\ environ[r1]["WANDB_API_KEY"] = environ[r2]["WANDB_API_KEY"]
    /\ script[r1] = "fast-apply" =>
          environ[r1]["TOGETHER_API_KEY"] = environ[r2]["TOGETHER_API_KEY"]

C9_Trace(r) == [i \in 1..Len(calls[r]) |-> <<calls[r][i].fn, calls[r][i].args>>]

C9_EnvironmentAlone ==
    \A r1, r2 \in Runs :
        (C9_SameInputs(r1, r2) /\ pc[r1] = "done" /\ pc[r2] = "done") =>
            C9_Trace(r1) = C9_Trace(r2)

\* C9 amended: two runs of the same script under the same values of the
\* environment variables it reads make the same calls with the same
\* arguments as long as the library has answered their earlier calls alike
\* (returned the same value or raised in both), and end alike when it
\* answered every call alike.  The W&B key reaches the library only as
\* LoraSettings.wandb_api_key and the Together key only as the api_key of
\* llama_3_1_8b_together.
C9_Min(a, b) == IF a <= b THEN a ELSE b

C9_AnsweredAlike(r1, r2, k) ==
    \A j \in 1..k :
        /\ calls[r1][j].status = calls[r2][j].status
        /\ calls[r1][j].status # "running"
        /\ calls[r1][j].ret = calls[r2][j].ret

C9_Flow(r) ==
    \A i \in 1..Len(calls[r]) :
        LET c == calls[r][i] IN
        /\ c.fn = "JsonlConvos" => c.args.path \notin Keys
        /\ c.fn = "LoraSettings" =>
              /\ c.args.wandb_api_key = environ[r]["WANDB_API_KEY"]
              /\ {c.args.wandb_project, c.args.dropout, c.args.learning_rate}
                    \cap Keys = {}
        /\ c.fn = "llama_3_1_8b_together" =>
              /\ c.args.api_key = environ[r]["TOGETHER_API_KEY"]
              /\ c.args.output_dir \notin Keys
              /\ c.args.settings.args.wandb_api_key = environ[r]["WANDB_API_KEY"]
        /\ c.fn = "llama_3_1_8b_axolotl" =>
              /\ DOMAIN c.args = {"dataset", "settings", "warmup_steps"}
              /\ c.args.settings.args.wandb_api_key = environ[r]["WANDB_API_KEY"]
        /\ c.fn = "save" => c.args.output_dir \notin Keys

C9_EnvironmentAndLibrary ==
    /\ \A r \in Runs : C9_Flow(r)
    /\ \A r1, r2 \in Runs : C9_SameInputs(r1, r2) =>
          LET n == C9_Min(Len(calls[r1]), Len(calls[r2])) IN
          /\ \A i \in 1..n :
                C9_AnsweredAlike(r1, r2, i - 1) =>
                    /\ calls[r1][i].site = calls[r2][i].site
                    /\ calls[r1][i].fn = calls[r2][i].fn
                    /\ calls[r1][i].args = calls[r2][i].args
          /\ (Terminal(r1) /\ Terminal(r2) /\ C9_AnsweredAlike(r1, r2, n)) =>
                /\ Len(calls[r1]) = Len(calls[r2])
                /\ pc[r1] = pc[r2]
                /\ error[r1] = error[r2]

C9_Witness ==
    \E r1, r2 \in Runs :
        /\ r1 # r2 /\ C9_SameInputs(r1, r2)
        /\ script[r1] = "fast-apply"
        /\ IsSet(r1, "WANDB_API_KEY") /\ IsSet(r1, "TOGETHER_API_KEY")
        /\ environ[r1]["WANDB_API_KEY"] # environ[r1]["TOGETHER_API_KEY"]
        /\ pc[r1] = "done" /\ pc[r2] = "done"
        /\ calls[r1] = calls[r2]

====
